---- MODULE Spec2Model ----
(***************************************************************************)
(* Model of the bounded key-value cache of src/src/cache/cache.rs          *)
(* (struct Cache: capacity, data, keys_order) and its operations new, put, *)
(* get, remove, clear, len and is_empty.                                   *)
(*                                                                         *)
(* data is a function whose domain is the set of stored keys (HashMap),    *)
(* keys_order is a sequence of keys (VecDeque, index 1 = front).           *)
(* An Option is a sequence: None is <<>> and Some(v) is <<v>>.             *)
(* last records the latest call (its name, arguments and result) and prev  *)
(* the call before it, so that results of calls can be stated.  recency    *)
(* and written are history variables: the stored keys from the least to    *)
(* the most recently put or successfully read, and the value last put for  *)
(* each key put and not removed, cleared or evicted since.                 *)
(*                                                                         *)
(* lru_capacity, lru_data, lru_keys_order and lru_last are the state and   *)
(* the latest call of the second implementation, the struct Cache of       *)
(* src/src/cache/lru_cache.rs.  pc and script drive a fixed sequence of    *)
(* calls (a scenario); age counts, for each stored key, the insertions of  *)
(* a new key into the full cache since the key was last put or read;       *)
(* putlog is the value last put for every key ever put.  Each of these is  *)
(* recorded only by the specification that needs it.                       *)
(***************************************************************************)
EXTENDS Integers, Sequences, FiniteSets, TLC

MaxCapacity == 2
NumKeys == 3
NumValues == 2

Keys == 1..NumKeys
Values == 1..NumValues
Capacities == 0..MaxCapacity

VARIABLES capacity, data, keys_order, last, prev, recency, written,
          lru_capacity, lru_data, lru_keys_order, lru_last,
          pc, script, age, putlog

lru_vars == <<lru_capacity, lru_data, lru_keys_order, lru_last>>
vars == <<capacity, data, keys_order, last, prev, recency, written,
          lru_vars, pc, script, age, putlog>>

None == <<>>
Some(v) == <<v>>
Unit == <<>>

(* ---------------- HashMap<K, V> ---------------- *)
EmptyMap == [x \in {} |-> 0]
contains_key(d, key) == key \in DOMAIN d
\* variant: an insert that keeps the value of a key already present
map_insert_keep(d, key, value) ==
    [x \in (DOMAIN d) \cup {key} |-> IF x \in DOMAIN d THEN d[x] ELSE value]
map_insert(d, key, value) ==
    [x \in (DOMAIN d) \cup {key} |-> IF x = key THEN value ELSE d[x]]
map_remove(d, key) == [x \in (DOMAIN d) \ {key} |-> d[x]]
map_get(d, key) == IF key \in DOMAIN d THEN Some(d[key]) ELSE None

(* ---------------- VecDeque<K> ---------------- *)
retain(s, key) == SelectSeq(s, LAMBDA k : k # key)
push_back(s, key) == Append(s, key)
push_front(s, key) == <<key>> \o s
pop_front(s) == IF s = <<>> THEN <<>> ELSE Tail(s)
front(s) == IF s = <<>> THEN None ELSE Some(s[1])
Range(s) == {s[i] : i \in 1..Len(s)}
Restrict(s, S) == SelectSeq(s, LAMBDA k : k \in S)

(* ---------------- Cache::len, Cache::is_empty ---------------- *)
len == Cardinality(DOMAIN data)
is_empty == DOMAIN data = {}

(* ---------------- Cache::put ---------------- *)
\* variant: a put that tests the capacity before it looks the key up
put_keys_order_capacity_first(cap, d, o, key) ==
    LET o1 == IF Cardinality(DOMAIN d) = cap THEN pop_front(o) ELSE o
    IN  push_back(retain(o1, key), key)
\* keys_order after put(key, _) on a cache (cap, d, o)
put_keys_order(cap, d, o, key) ==
    LET o1 == IF contains_key(d, key) THEN retain(o, key)
              ELSE IF Cardinality(DOMAIN d) = cap THEN pop_front(o)
              ELSE o
    IN  push_back(o1, key)

\* variant: a put that retains nothing on a cache of capacity 0
put_data_zero_noop(cap, d, o, key, value) ==
    IF cap = 0 THEN d
    ELSE LET d1 == IF contains_key(d, key) THEN d
                   ELSE IF Cardinality(DOMAIN d) = cap
                        THEN IF front(o) # None THEN map_remove(d, front(o)[1]) ELSE d
                   ELSE d
         IN  map_insert(d1, key, value)
\* variant: a put that drops the oldest key from the order but not from data
put_data_no_evict(cap, d, o, key, value) == map_insert(d, key, value)
\* variant: a put that inserts first and evicts when over capacity
put_data_evict_after(cap, d, o, key, value) ==
    LET d1 == map_insert(d, key, value)
    IN  IF Cardinality(DOMAIN d1) > cap /\ front(o) # None
        THEN map_remove(d1, front(o)[1]) ELSE d1
\* variant: a put that evicts one entry too early
put_data_off_by_one(cap, d, o, key, value) ==
    LET d1 == IF contains_key(d, key) THEN d
              ELSE IF Cardinality(DOMAIN d) + 1 = cap
                   THEN IF front(o) # None THEN map_remove(d, front(o)[1]) ELSE d
              ELSE d
    IN  map_insert(d1, key, value)
\* data after put(key, value) on a cache (cap, d, o)
put_data(cap, d, o, key, value) ==
    LET d1 == IF contains_key(d, key) THEN d
              ELSE IF Cardinality(DOMAIN d) = cap
                   THEN IF front(o) # None THEN map_remove(d, front(o)[1]) ELSE d
              ELSE d
    IN  map_insert(d1, key, value)

\* history: the stored keys ordered by their latest put or successful get
Touch(r, S, key) == Append(Restrict(r, S \ {key}), key)
\* history: the value last put for every stored key
Written(w, S, key, value) ==
    [x \in ((DOMAIN w) \cap S) \cup {key} |-> IF x = key THEN value ELSE w[x]]

\* the call on the cache alone
put_step(key, value) ==
    /\ data' = put_data(capacity, data, keys_order, key, value)
    /\ keys_order' = put_keys_order(capacity, data, keys_order, key)
    /\ last' = [op |-> "put", args |-> <<key, value>>, res |-> Unit]
    /\ UNCHANGED capacity

\* the call with its history recorded
put(key, value) ==
    /\ put_step(key, value)
    /\ prev' = last
    /\ recency' = Touch(recency, DOMAIN data', key)
    /\ written' = Written(written, DOMAIN data', key, value)

(* ---------------- Cache::get ---------------- *)
\* variant: a get that does not drop the old position of the key
get_keys_order_dup(d, o, key) ==
    IF contains_key(d, key) THEN push_front(o, key) ELSE o
\* variant: a get that moves the key to the back of the order
get_keys_order_back(d, o, key) ==
    IF contains_key(d, key) THEN push_back(retain(o, key), key) ELSE o
\* variant: a get that rotates the order until the key is at the front
get_keys_order_rotate(d, o, key) ==
    IF contains_key(d, key)
    THEN LET i == CHOOSE j \in 1..Len(o) : o[j] = key
         IN  SubSeq(o, i, Len(o)) \o SubSeq(o, 1, i - 1)
    ELSE o
\* variant: a get that moves the key without looking it up first
get_keys_order_unchecked(d, o, key) == push_front(retain(o, key), key)
get_keys_order(d, o, key) ==
    IF contains_key(d, key) THEN push_front(retain(o, key), key) ELSE o

get_result(d, key) ==
    IF contains_key(d, key) THEN map_get(d, key) ELSE None

get_step(key) ==
    /\ keys_order' = get_keys_order(data, keys_order, key)
    /\ last' = [op |-> "get", args |-> <<key>>, res |-> get_result(data, key)]
    /\ UNCHANGED <<capacity, data>>

get(key) ==
    /\ get_step(key)
    /\ prev' = last
    /\ recency' = IF key \in DOMAIN data
                  THEN Touch(recency, DOMAIN data, key) ELSE recency
    /\ UNCHANGED written

(* ---------------- Cache::remove ---------------- *)
\* variant: a remove that drops the front key of the order
remove_keys_order_front(d, o, key) ==
    IF contains_key(d, key) THEN pop_front(o) ELSE o
remove_keys_order(d, o, key) ==
    IF contains_key(d, key) THEN retain(o, key) ELSE o

remove_data(d, key) ==
    IF contains_key(d, key) THEN map_remove(d, key) ELSE d

remove_result(d, key) ==
    IF contains_key(d, key) THEN map_get(d, key) ELSE None

remove_step(key) ==
    /\ keys_order' = remove_keys_order(data, keys_order, key)
    /\ data' = remove_data(data, key)
    /\ last' = [op |-> "remove", args |-> <<key>>, res |-> remove_result(data, key)]
    /\ UNCHANGED capacity

remove(key) ==
    /\ remove_step(key)
    /\ prev' = last
    /\ recency' = Restrict(recency, Keys \ {key})
    /\ written' = [x \in (DOMAIN written) \ {key} |-> written[x]]

(* ---------------- Cache::clear ---------------- *)
clear_data(d) == EmptyMap
\* variant: a clear that forgets the key order
clear_keys_order_kept(o) == o
clear_keys_order(o) == <<>>

clear_step ==
    /\ data' = clear_data(data)
    /\ keys_order' = clear_keys_order(keys_order)
    /\ last' = [op |-> "clear", args |-> <<>>, res |-> Unit]
    /\ UNCHANGED capacity

clear ==
    /\ clear_step
    /\ prev' = last
    /\ recency' = <<>>
    /\ written' = EmptyMap

(* ---------------- CacheOperations for Cache (operation.rs) ------------ *)
\* the trait methods call the inherent methods of the same name
ops_put(key, value) == put_step(key, value)
ops_get(key) == get_step(key)
ops_remove(key) == remove_step(key)
ops_clear == clear_step

(* ---------------- lru_cache.rs: Cache::put ---------------- *)
lru_put_keys_order(cap, d, o, key) ==
    LET o1 == IF contains_key(d, key) THEN retain(o, key)
              ELSE IF Cardinality(DOMAIN d) = cap THEN pop_front(o)
              ELSE o
    IN  push_back(o1, key)

lru_put_data(cap, d, o, key, value) ==
    LET d1 == IF contains_key(d, key) THEN d
              ELSE IF Cardinality(DOMAIN d) = cap
                   THEN IF front(o) # None THEN map_remove(d, front(o)[1]) ELSE d
              ELSE d
    IN  map_insert(d1, key, value)

lru_put(key, value) ==
    /\ lru_data' = lru_put_data(lru_capacity, lru_data, lru_keys_order, key, value)
    /\ lru_keys_order' = lru_put_keys_order(lru_capacity, lru_data, lru_keys_order, key)
    /\ lru_last' = [op |-> "put", args |-> <<key, value>>, res |-> Unit]
    /\ UNCHANGED lru_capacity

(* ---------------- lru_cache.rs: Cache::get ---------------- *)
\* variant: a get that moves the key to the back of the order
lru_get_keys_order_back(d, o, key) ==
    IF contains_key(d, key) THEN push_back(retain(o, key), key) ELSE o
lru_get_keys_order(d, o, key) ==
    IF contains_key(d, key) THEN push_front(retain(o, key), key) ELSE o

lru_get_result(d, key) ==
    IF contains_key(d, key) THEN map_get(d, key) ELSE None

lru_get(key) ==
    /\ lru_keys_order' = lru_get_keys_order(lru_data, lru_keys_order, key)
    /\ lru_last' = [op |-> "get", args |-> <<key>>,
                    res |-> lru_get_result(lru_data, key)]
    /\ UNCHANGED <<lru_capacity, lru_data>>

(* ---------------- lru_cache.rs: Cache::remove ---------------- *)
lru_remove_keys_order(d, o, key) ==
    IF contains_key(d, key) THEN retain(o, key) ELSE o

lru_remove_data(d, key) ==
    IF contains_key(d, key) THEN map_remove(d, key) ELSE d

lru_remove_result(d, key) ==
    IF contains_key(d, key) THEN map_get(d, key) ELSE None

lru_remove(key) ==
    /\ lru_keys_order' = lru_remove_keys_order(lru_data, lru_keys_order, key)
    /\ lru_data' = lru_remove_data(lru_data, key)
    /\ lru_last' = [op |-> "remove", args |-> <<key>>,
                    res |-> lru_remove_result(lru_data, key)]
    /\ UNCHANGED lru_capacity

(* ---------------- lru_cache.rs: Cache::clear ---------------- *)
lru_clear ==
    /\ lru_data' = EmptyMap
    /\ lru_keys_order' = <<>>
    /\ lru_last' = [op |-> "clear", args |-> <<>>, res |-> Unit]
    /\ UNCHANGED lru_capacity

(* ---------------- lru_cache.rs: CacheOperations for Cache ------------- *)
lru_ops_put(key, value) == lru_put(key, value)
lru_ops_get(key) == lru_get(key)
lru_ops_remove(key) == lru_remove(key)
lru_ops_clear == lru_clear

(* ---------------- Cache::new (both implementations) ---------------- *)
Init ==
    /\ capacity \in Capacities
    /\ data = EmptyMap
    /\ keys_order = <<>>
    /\ last = [op |-> "new", args |-> <<capacity>>, res |-> Unit]
    /\ prev = [op |-> "none", args |-> <<>>, res |-> Unit]
    /\ recency = <<>>
    /\ written = EmptyMap
    /\ lru_capacity = capacity
    /\ lru_data = EmptyMap
    /\ lru_keys_order = <<>>
    /\ lru_last = [op |-> "new", args |-> <<capacity>>, res |-> Unit]
    /\ pc = 1
    /\ script = <<>>
    /\ age = EmptyMap
    /\ putlog = EmptyMap

(* ---------------- one cache, any sequence of calls ---------------- *)
CachePut(key, value) ==
    put(key, value) /\ UNCHANGED <<lru_vars, pc, script, age, putlog>>
CacheGet(key) ==
    get(key) /\ UNCHANGED <<lru_vars, pc, script, age, putlog>>
CacheRemove(key) ==
    remove(key) /\ UNCHANGED <<lru_vars, pc, script, age, putlog>>
CacheClear ==
    clear /\ UNCHANGED <<lru_vars, pc, script, age, putlog>>

Next ==
    \/ \E key \in Keys, value \in Values : CachePut(key, value)
    \/ \E key \in Keys : CacheGet(key)
    \/ \E key \in Keys : CacheRemove(key)
    \/ CacheClear

Spec == Init /\ [][Next]_vars

(* ---------------- both implementations, the same calls ---------------- *)
history == <<prev, recency, written, pc, script, age, putlog>>

\* the call made on both caches through the inherent methods
BothPut(key, value) ==
    put_step(key, value) /\ lru_put(key, value) /\ UNCHANGED history
BothGet(key) ==
    get_step(key) /\ lru_get(key) /\ UNCHANGED history
BothRemove(key) ==
    remove_step(key) /\ lru_remove(key) /\ UNCHANGED history
BothClear ==
    clear_step /\ lru_clear /\ UNCHANGED history

\* the call made on each cache through either its inherent or its trait method
BothOpsPut(key, value) ==
    /\ put_step(key, value) \/ ops_put(key, value)
    /\ lru_put(key, value) \/ lru_ops_put(key, value)
    /\ UNCHANGED history
BothOpsGet(key) ==
    /\ get_step(key) \/ ops_get(key)
    /\ lru_get(key) \/ lru_ops_get(key)
    /\ UNCHANGED history
BothOpsRemove(key) ==
    /\ remove_step(key) \/ ops_remove(key)
    /\ lru_remove(key) \/ lru_ops_remove(key)
    /\ UNCHANGED history
BothOpsClear ==
    /\ clear_step \/ ops_clear
    /\ lru_clear \/ lru_ops_clear
    /\ UNCHANGED history

NextBoth ==
    \/ \E key \in Keys, value \in Values : BothPut(key, value)
    \/ \E key \in Keys : BothGet(key)
    \/ \E key \in Keys : BothRemove(key)
    \/ BothClear
    \/ \E key \in Keys, value \in Values : BothOpsPut(key, value)
    \/ \E key \in Keys : BothOpsGet(key)
    \/ \E key \in Keys : BothOpsRemove(key)
    \/ BothOpsClear

SpecBoth == Init /\ [][NextBoth]_vars

(* ---------------- one cache, a fixed sequence of calls ---------------- *)
PutCall(key, value) == [op |-> "put", args |-> <<key, value>>]
GetCall(key) == [op |-> "get", args |-> <<key>>]

\* capacity 2: put(a, v1), put(b, v2), get(a), put(c, v3), get(b), get(a), get(c)
ScenarioA(a, b, c, v1, v2, v3) ==
    << PutCall(a, v1), PutCall(b, v2), GetCall(a), PutCall(c, v3),
       GetCall(b), GetCall(a), GetCall(c) >>

InitScenarioA ==
    /\ capacity = 2
    /\ data = EmptyMap
    /\ keys_order = <<>>
    /\ last = [op |-> "new", args |-> <<capacity>>, res |-> Unit]
    /\ prev = [op |-> "none", args |-> <<>>, res |-> Unit]
    /\ recency = <<>>
    /\ written = EmptyMap
    /\ lru_capacity = capacity
    /\ lru_data = EmptyMap
    /\ lru_keys_order = <<>>
    /\ lru_last = [op |-> "new", args |-> <<capacity>>, res |-> Unit]
    /\ pc = 1
    /\ \E a, b, c \in Keys : \E v1, v2, v3 \in Values :
          /\ a # b /\ a # c /\ b # c
          /\ script = ScenarioA(a, b, c, v1, v2, v3)
    /\ age = EmptyMap
    /\ putlog = EmptyMap

ScenarioPut ==
    /\ pc <= Len(script)
    /\ script[pc].op = "put"
    /\ put(script[pc].args[1], script[pc].args[2])
    /\ pc' = pc + 1
    /\ UNCHANGED <<lru_vars, script, age, putlog>>

ScenarioGet ==
    /\ pc <= Len(script)
    /\ script[pc].op = "get"
    /\ get(script[pc].args[1])
    /\ pc' = pc + 1
    /\ UNCHANGED <<lru_vars, script, age, putlog>>

NextScenario == ScenarioPut \/ ScenarioGet

SpecScenarioA == InitScenarioA /\ [][NextScenario]_vars

(* ---------------- one cache, insertions into the full cache counted ---- *)
\* a put of a key not stored into a full cache
IntoFull(key) == ~contains_key(data, key) /\ len = capacity
Min(m, n) == IF m <= n THEN m ELSE n

\* age after put(key, _): the count restarts for key and grows (up to the
\* capacity) for every other key still stored when the put was into the
\* full cache
AgePut(key) ==
    age' = [x \in DOMAIN data' |->
              IF x = key THEN 0
              ELSE IF IntoFull(key) THEN Min(age[x] + 1, capacity)
              ELSE age[x]]
AgeGet(key) ==
    age' = IF contains_key(data, key)
           THEN [x \in DOMAIN data |-> IF x = key THEN 0 ELSE age[x]]
           ELSE age

CountedPut(key, value) ==
    put(key, value) /\ AgePut(key) /\ UNCHANGED <<lru_vars, pc, script, putlog>>
CountedGet(key) ==
    get(key) /\ AgeGet(key) /\ UNCHANGED <<lru_vars, pc, script, putlog>>
CountedRemove(key) ==
    /\ remove(key)
    /\ age' = [x \in DOMAIN data' |-> age[x]]
    /\ UNCHANGED <<lru_vars, pc, script, putlog>>
CountedClear ==
    clear /\ age' = EmptyMap /\ UNCHANGED <<lru_vars, pc, script, putlog>>

NextCounted ==
    \/ \E key \in Keys, value \in Values : CountedPut(key, value)
    \/ \E key \in Keys : CountedGet(key)
    \/ \E key \in Keys : CountedRemove(key)
    \/ CountedClear

SpecCounted == Init /\ [][NextCounted]_vars

(* ---------------- a cache of capacity 0, put and get only ---------------- *)
InitZero == Init /\ capacity = 0

ZeroPut(key, value) ==
    /\ put(key, value)
    /\ putlog' = [x \in (DOMAIN putlog) \cup {key} |->
                    IF x = key THEN value ELSE putlog[x]]
    /\ UNCHANGED <<lru_vars, pc, script, age>>
ZeroGet(key) ==
    get(key) /\ UNCHANGED <<lru_vars, pc, script, age, putlog>>

NextZero ==
    \/ \E key \in Keys, value \in Values : ZeroPut(key, value)
    \/ \E key \in Keys : ZeroGet(key)

SpecZero == InitZero /\ [][NextZero]_vars

TypeOK ==
    /\ capacity \in Capacities
    /\ DOMAIN data \subseteq Keys
    /\ \A k \in DOMAIN data : data[k] \in Values
    /\ Range(keys_order) \subseteq Keys

(***************************************************************************)
(* Properties                                                              *)
(***************************************************************************)
back(s) == IF s = <<>> THEN None ELSE Some(s[Len(s)])
IsPut(c) == c.op = "put"
IsGet(c) == c.op = "get"
IsRemove(c) == c.op = "remove"
IsClear(c) == c.op = "clear"
Found(c) == c.op = "get" /\ c.res # None
Key(c) == c.args[1]
Val(c) == c.args[2]

\* C1: for every capacity c >= 0 and every sequence of put, get, remove and
\* clear calls, len() <= capacity holds after each call; a cache of
\* capacity 0 is empty after every call.
C1_LenWithinCapacity == len <= capacity

\* C2: after every call the key sequence keys_order holds exactly the keys
\* of data, each exactly once (so the two have the same length).
C2_OrderMatchesTable ==
    /\ Range(keys_order) = DOMAIN data
    /\ Len(keys_order) = Cardinality(DOMAIN data)
    /\ \A i, j \in 1..Len(keys_order) : keys_order[i] = keys_order[j] => i = j

C2_Witness == Found(last) /\ len >= 2 /\ keys_order # recency

\* C3: after put(k, v) and after a get(k) that finds k, k is the back
\* element of the key order, and if another key is stored the next put of
\* a new key into the full cache does not evict k.
C3_RecencyLaw ==
    [][ /\ (IsPut(last') \/ Found(last')) => back(keys_order') = Some(Key(last'))
        /\ ( /\ IsPut(last) \/ Found(last)
             /\ len >= 2 /\ len = capacity
             /\ IsPut(last') /\ ~contains_key(data, Key(last')) )
           => contains_key(data', Key(last)) ]_vars

\* C4: when len() = capacity >= 1, put(k, v) with k not stored removes
\* exactly the stored key whose latest put or successful get is the oldest;
\* every other stored key keeps its value, k is stored with v and len() is
\* unchanged.
C4_EvictionLaw ==
    [][ ( /\ IsPut(last') /\ ~contains_key(data, Key(last'))
          /\ len = capacity /\ capacity >= 1 )
        => /\ DOMAIN data' = ((DOMAIN data) \ {recency[1]}) \cup {Key(last')}
           /\ \A x \in (DOMAIN data) \ {recency[1]} :
                  get_result(data', x) = Some(data[x])
           /\ get_result(data', Key(last')) = Some(Val(last'))
           /\ len' = len ]_vars

C7_OverwriteLaw ==
    [][ /\ (IsPut(last') /\ contains_key(data, Key(last'))) => len' = len
        /\ (IsGet(last') /\ contains_key(written, Key(last')))
              => last'.res = Some(written[Key(last')]) ]_vars

C7_Witness ==
    /\ IsPut(prev) /\ Found(last) /\ Key(last) # Key(prev)
    /\ \E k \in DOMAIN data : k # Key(last) /\ data[k] # data[Key(last)]
    /\ len = capacity

\* C8: get(k) and remove(k) on a key that is not stored return None and
\* leave capacity, the stored keys and values and the key order unchanged.
C8_AbsentKeyNoMutation ==
    [][ ( /\ IsGet(last') \/ IsRemove(last')
          /\ ~contains_key(data, Key(last')) )
        => /\ last'.res = None
           /\ capacity' = capacity
           /\ data' = data
           /\ keys_order' = keys_order ]_vars

C8_Witness ==
    /\ IsGet(last) \/ IsRemove(last)
    /\ last.res = None
    /\ len >= 1

\* C9: remove(k) on a stored key returns Some(v) with v the value last put
\* for k, deletes k from data and from the key order (len() decreases by 1,
\* get(k) then returns None) and leaves every other key stored with its
\* value and in the same relative order.
C9_RemoveStored ==
    [][ (IsRemove(last') /\ contains_key(data, Key(last')))
        => /\ contains_key(written, Key(last'))
           /\ last'.res = Some(written[Key(last')])
           /\ len' = len - 1
           /\ get_result(data', Key(last')) = None
           /\ DOMAIN data' = (DOMAIN data) \ {Key(last')}
           /\ \A x \in DOMAIN data' : data'[x] = data[x]
           /\ keys_order' = Restrict(keys_order, Keys \ {Key(last')}) ]_vars

C9_Witness ==
    /\ IsRemove(last) /\ last.res # None
    /\ len >= 2
    /\ keys_order # recency

\* C10: clear() yields len() = 0, is_empty() and an empty key order, keeps
\* the capacity, and a second clear() leaves the state of the first.
C10_Clear ==
    [][ IsClear(last')
        => /\ len' = 0 /\ is_empty'
           /\ keys_order' = <<>>
           /\ capacity' = capacity
           /\ IsClear(last) =>
                 <<capacity', data', keys_order'>> = <<capacity, data, keys_order>> ]_vars

C10_Witness == IsClear(last) /\ IsClear(prev)

\* C18: the two implementations, cache::cache::Cache and
\* cache::lru_cache::Cache, built with the same capacity and driven by the
\* same calls (directly or through the trait methods), return the same
\* result for every call and hold the same table and key order after it.
C18_SameBehaviour ==
    /\ lru_last = last
    /\ lru_capacity = capacity
    /\ lru_data = data
    /\ lru_keys_order = keys_order

C18_Witness ==
    /\ Found(lru_last) /\ lru_last = last
    /\ capacity >= 2 /\ len = capacity
    /\ front(lru_keys_order) = Some(Key(last))
    /\ lru_data = data

\* C11 (Scenario A): on a cache of capacity 2, the calls put(a,1), put(b,2),
\* get(a), put(c,3), get(b), get(a), get(c) return 1 for the first get(a),
\* not-found for get(b), 1 for the second get(a) and 3 for get(c): put(c,3)
\* evicts b and not a.
C11_ScenarioA ==
    LET a == script[1].args[1]
        b == script[2].args[1]
        v1 == script[1].args[2]
        v3 == script[4].args[2]
    IN  /\ pc = 4 => last.res = Some(v1)
        /\ pc = 5 => (~contains_key(data, b) /\ contains_key(data, a))
        /\ pc = 6 => last.res = None
        /\ pc = 7 => last.res = Some(v1)
        /\ pc = 8 => last.res = Some(v3)

Others(s, key) == Restrict(s, Keys \ {key})

\* C12: put(k, v) with k already stored never evicts, also when
\* len() = capacity: the set of stored keys is unchanged, every other key
\* keeps its value and its relative position in the key order, and k
\* becomes the back element of the order.
C12_PutStoredKey ==
    [][ (IsPut(last') /\ contains_key(data, Key(last')))
        => /\ DOMAIN data' = DOMAIN data
           /\ \A x \in (DOMAIN data) \ {Key(last')} : data'[x] = data[x]
           /\ Others(keys_order', Key(last')) = Others(keys_order, Key(last'))
           /\ Len(keys_order') = Len(keys_order)
           /\ back(keys_order') = Some(Key(last')) ]_vars

C12_Witness ==
    /\ Found(prev) /\ IsPut(last) /\ Key(last) = Key(prev)
    /\ capacity >= 2 /\ len = capacity

\* C13: put(k, v) with k not stored and len() < capacity evicts nothing:
\* len() increases by exactly 1, every previously stored key stays stored
\* with its value and relative order, and k is appended at the back.
C13_PutNewKeyWithRoom ==
    [][ (IsPut(last') /\ ~contains_key(data, Key(last')) /\ len < capacity)
        => /\ len' = len + 1
           /\ \A x \in DOMAIN data : get_result(data', x) = Some(data[x])
           /\ keys_order' = Append(keys_order, Key(last')) ]_vars

C13_Witness ==
    /\ IsRemove(prev) /\ prev.res # None
    /\ IsPut(last) /\ Key(last) = Key(prev)
    /\ capacity >= 2 /\ len = 2

\* C14: in a cache of capacity c >= 1, a stored key that is afterwards
\* never put, read or removed (and with no clear) is no longer stored once
\* c further puts have each inserted a new key into the full cache.
C14_EvictedWithinCapacity ==
    capacity >= 1 => \A k \in DOMAIN data : age[k] < capacity

\* C15: a get(k) that finds k changes only the position of k in the key
\* order: capacity, the stored keys, every stored value and len() are
\* unchanged and the other keys keep their relative order; a second get(k)
\* made directly afterwards returns the same value and leaves the state
\* unchanged.
C15_GetFrame ==
    [][ Found(last')
        => /\ capacity' = capacity
           /\ data' = data
           /\ len' = len
           /\ Range(keys_order') = Range(keys_order)
           /\ Len(keys_order') = Len(keys_order)
           /\ Others(keys_order', Key(last')) = Others(keys_order, Key(last'))
           /\ (Found(last) /\ Key(last) = Key(last'))
                 => /\ last'.res = last.res
                    /\ <<capacity', data', keys_order'>>
                          = <<capacity, data, keys_order>> ]_vars

C15_Witness ==
    /\ Found(prev) /\ Found(last) /\ Key(last) = Key(prev)
    /\ len >= 2

\* C16: for every capacity c >= 1, len() <= c after every call; put is the
\* only call that adds an entry, and it adds a new key only after evicting
\* the front key whenever len() = c.
C16_LenWithinPositiveCapacity ==
    /\ [](capacity >= 1 => len <= capacity)
    /\ [][ /\ len' > len => (IsPut(last') /\ len' = len + 1)
           /\ ( /\ capacity >= 1 /\ len = capacity
                /\ IsPut(last') /\ ~contains_key(data, Key(last')) )
              => /\ front(keys_order) # None
                 /\ ~contains_key(data', front(keys_order)[1])
                 /\ len' = len ]_vars

C16_Witness ==
    /\ capacity = 1 /\ len = 1
    /\ IsPut(prev) /\ IsPut(last) /\ Key(prev) # Key(last)

====
